---- MODULE Spec2Model ----
(***************************************************************************)
(* Model of the option bulk-add / bulk-remove admin routes.                *)
(*                                                                         *)
(*   remove page : src/unnamed/part_000   (header: app/routes/index.jsx)   *)
(*   add page    : src/app/routes/app.additional.jsx                       *)
(*                                                                         *)
(* A route function (loader or action) is an async function: it runs until *)
(* its next `await admin.graphql(...)`, which puts one request in flight,  *)
(* and resumes when the response arrives.  One action of the model is one  *)
(* such segment: everything the code does between two awaits.  The remove  *)
(* page's component (Index) is modelled by its state, its event handlers   *)
(* and its result effect.                                                  *)
(*                                                                         *)
(* Strings are sequences of one-character strings, so that trim,           *)
(* toLowerCase, includes and === are computed, not assumed.                *)
(***************************************************************************)
EXTENDS Integers, Sequences, FiniteSets, TLC

VARIABLES
    catalog,      \* the remote catalog: sequence of products
    wf,           \* route function running: "idle", "removeLoader", "addLoader", "remove", "add"
    pc,           \* position of the running function
    optionName,   \* action: trimmed form field optionName
    values,       \* add action: result of JSON.parse(valuesJSON)
    allProducts,  \* accumulator of the read loop (allProducts / all)
    hasNextPage,  \* loop flag of the read loop (hasNextPage / hasNext)
    afterCursor,  \* cursor of the read loop (afterCursor / cursor)
    toAdd,        \* add action: products missing the option
    idx,          \* position of the for-of loop (1-based index of the current product)
    opt,          \* remove action: the matched option of the current product, <<>> if none
    errors,       \* aggregate error list
    result,       \* what the route function returned
    inflight,     \* set of remote requests issued and not yet answered
    log,          \* history: requests issued and responses received in this invocation
    runs,         \* history: number of invocations started
    prev,         \* history: option name of the previous invocation if it was an add that
                  \* reported success, <<>> otherwise
    precond,      \* history: every add invocation so far was given a non-empty list of values
    localProducts,  \* remove page: state localProducts
    searchTerm,     \* remove page: state searchTerm
    lastTerm,       \* remove page: lastTerm.current
    fetcherState,   \* remove page: fetcher.state; "error" once the action threw
    fetcherData,    \* remove page: fetcher.data and the submission it came from
    effectDeps,     \* remove page: dependencies the result effect last ran with
    toast,          \* remove page: the toast shown last by the button or the result effect
    successRuns,    \* history: number of runs of the success branch of the result effect
    successes,      \* history: number of submissions that returned success
    edits           \* history: number of changes of the search field by the user

serverVars == <<catalog, wf, pc, optionName, values, allProducts, hasNextPage,
                afterCursor, toAdd, idx, opt, errors, result, inflight, log, runs,
                prev, precond>>

pageVars == <<localProducts, searchTerm, lastTerm, fetcherState, fetcherData,
              effectDeps, toast, successRuns, successes, edits>>

vars == <<serverVars, pageVars>>

(***************************************************************************)
(* Bounds of the model.                                                    *)
(***************************************************************************)
MaxProducts == 2      \* products in the initial remote catalog
MaxRuns == 2          \* route invocations in one behaviour
MaxEdits == 2         \* changes of the search field of the remove page in one behaviour

(***************************************************************************)
(* Program constants.                                                      *)
(***************************************************************************)
PageSize == 250       \* variables: { first: 250, ... }

Null == <<>>          \* JS null / undefined for cursors and find() results

(***************************************************************************)
(* Strings.                                                                *)
(***************************************************************************)
LowerChar(c) == IF c = "A" THEN "a" ELSE IF c = "B" THEN "b" ELSE c

\* String.prototype.toLowerCase
toLowerCase(s) == [i \in 1..Len(s) |-> LowerChar(s[i])]

\* String.prototype.includes: t occurs in s as a contiguous substring
includes(s, t) ==
    \E i \in 0..(Len(s) - Len(t)) : SubSeq(s, i + 1, i + Len(t)) = t

RECURSIVE trimStart(_)
trimStart(s) == IF s # <<>> /\ Head(s) = " " THEN trimStart(Tail(s)) ELSE s

RECURSIVE trimEnd(_)
trimEnd(s) ==
    IF s # <<>> /\ s[Len(s)] = " " THEN trimEnd(SubSeq(s, 1, Len(s) - 1)) ELSE s

\* String.prototype.trim
trim(s) == trimEnd(trimStart(s))

\* form.get("optionName")?.toString().trim() || ""   (raw = Null: field absent)
FormOptionName(raw) == IF raw = Null THEN <<>> ELSE trim(raw)

RECURSIVE join(_, _)
\* Array.prototype.join over a list of messages (each a string)
join(list, sep) ==
    IF list = <<>> THEN <<>>
    ELSE IF Len(list) = 1 THEN list[1]
    ELSE list[1] \o sep \o join(Tail(list), sep)

Last(s) == s[Len(s)]

(***************************************************************************)
(* The remote catalog.  A product is [id, options]; an option is           *)
(* [id, name, position, optionValues]; an option value is [id, name].      *)
(* (title is only used in log lines and is left out.)                      *)
(***************************************************************************)
ValueNames == <<"R", "G", "Y">>

\* an option as the remote stores it; n values, their ids in descending order,
\* so that value ids are not value positions
MkOption(pid, name, n) ==
    [id |-> <<pid, name>>, name |-> name, position |-> 0,
     optionValues |-> [i \in 1..n |-> [id |-> n + 1 - i, name |-> ValueNames[i]]]]

\* the remote numbers the options of a product 1, 2, ...
Renumber(opts) == [i \in 1..Len(opts) |-> [opts[i] EXCEPT !.position = i]]

\* the option lists of the products of the initial catalog, as <<name, #values>>:
\* one option "A", or the options "a" and "AB"
Templates ==
    << << <<<<"A">>, 2>> >>,
       << <<<<"a">>, 3>>, <<<<"A", "B">>, 1>> >> >>

MkProduct(pid, tpl) ==
    [id |-> pid,
     options |-> Renumber([i \in 1..Len(tpl) |-> MkOption(pid, tpl[i][1], tpl[i][2])])]

\* initial catalogs: up to MaxProducts products, the two kinds alternating
Catalogs ==
    { [i \in 1..n |-> MkProduct(i, Templates[((i + s) % 2) + 1])] :
        n \in 0..MaxProducts, s \in 0..1 }

\* selection set of the add page's query: options { id name }
BriefNode(p) ==
    [id |-> p.id,
     options |-> [i \in 1..Len(p.options) |->
                    [id |-> p.options[i].id, name |-> p.options[i].name]]]

\* selection set of the remove page's query: options with position and optionValues
FullNode(p) == p

\* products(first, after) answered by the remote with k edges: the k products
\* that follow the cursor, each edge with its own cursor, and hasNextPage
\* telling whether products remain after them
ListPage(cat, query, after, k) ==
    LET start == IF after = Null THEN 0 ELSE after[1]
    IN [edges |-> [i \in 1..k |->
                     [cursor |-> <<start + i>>,
                      node |-> IF query = "brief" THEN BriefNode(cat[start + i])
                               ELSE FullNode(cat[start + i])]],
        pageInfo |-> [hasNextPage |-> start + k < Len(cat)]]

\* page lengths the remote may answer with: at most `first` products, at least
\* one while products remain
PageLengths(cat, first, after) ==
    LET start == IF after = Null THEN 0 ELSE after[1]
        rest == Len(cat) - start
    IN IF rest = 0 THEN {0}
       ELSE {k \in 1..rest : k <= first}

\* productOptionsCreate(productId, options, LEAVE_AS_IS) when it succeeds
ApplyCreate(cat, pid, optionInput) ==
    LET new == [i \in 1..Len(optionInput) |->
                  [id |-> <<pid, optionInput[i].name>>,
                   name |-> optionInput[i].name,
                   position |-> 0,
                   optionValues |-> [j \in 1..Len(optionInput[i].values) |->
                       [id |-> j, name |-> optionInput[i].values[j].name]]]]
    IN [i \in 1..Len(cat) |->
          IF cat[i].id = pid
          THEN [cat[i] EXCEPT !.options = Renumber(@ \o new)]
          ELSE cat[i]]

\* productOptionUpdate(productId, option, optionValuesToDelete, MANAGE) when it succeeds
ApplyUpdate(cat, pid, option, optionValuesToDelete) ==
    LET InDel(v) == \E j \in 1..Len(optionValuesToDelete) : optionValuesToDelete[j] = v.id
        Upd(o) == IF o.id = option.id
                  THEN [o EXCEPT !.optionValues = SelectSeq(@, LAMBDA v : ~InDel(v))]
                  ELSE o
    IN [i \in 1..Len(cat) |->
          IF cat[i].id = pid
          THEN [cat[i] EXCEPT !.options = [j \in 1..Len(@) |-> Upd(@[j])]]
          ELSE cat[i]]

\* productOptionsDelete(productId, options) when it succeeds
ApplyDelete(cat, pid, optionIds) ==
    LET InDel(o) == \E j \in 1..Len(optionIds) : optionIds[j] = o.id
    IN [i \in 1..Len(cat) |->
          IF cat[i].id = pid
          THEN [cat[i] EXCEPT !.options = Renumber(SelectSeq(@, LAMBDA o : ~InDel(o)))]
          ELSE cat[i]]

\* userErrors a mutation response may carry (their messages): none when the
\* call succeeds; when the remote refuses the call, one descriptor for the
\* products with an odd id and two for those with an even id
ErrorLists(pid) ==
    { <<>>, IF pid % 2 = 1 THEN << <<"E">> >> ELSE << <<"E">>, <<"F">> >> }

AllErrorLists == { <<>>, << <<"E">> >>, << <<"E">>, <<"F">> >> }

(***************************************************************************)
(* Form input of the add page: valuesJSON is a text, modelled as its       *)
(* sequence of JSON tokens.  JSON.parse accepts the literal null and       *)
(* arrays of string literals; every other token sequence of the model is a *)
(* SyntaxError.                                                            *)
(***************************************************************************)
IsStringToken(t) == \E i \in 1..Len(ValueNames) : ValueNames[i] = t

IsArrayText(ts) ==
    /\ Len(ts) >= 2
    /\ ts[1] = "[" /\ ts[Len(ts)] = "]"
    /\ \/ Len(ts) = 2
       \/ /\ Len(ts) % 2 = 1
          /\ \A i \in 2..(Len(ts) - 1) :
                IF i % 2 = 0 THEN IsStringToken(ts[i]) ELSE ts[i] = ","

\* JSON.parse: [ok |-> FALSE] stands for the thrown SyntaxError
JSONparse(ts) ==
    IF ts = <<"null">> THEN [ok |-> TRUE, value |-> [type |-> "null", items |-> <<>>]]
    ELSE IF IsArrayText(ts)
         THEN [ok |-> TRUE,
               value |-> [type |-> "array",
                          items |-> [i \in 1..((Len(ts) - 1) \div 2) |-> ts[2 * i]]]]
         ELSE [ok |-> FALSE, value |-> [type |-> "none", items |-> <<>>]]

\* form.get("values")?.toString() || ""
FormValues(raw) == IF raw = Null THEN <<>> ELSE raw

\* raw optionName fields a submission may carry (Null: field absent)
RawNames == { Null, <<" ">>, <<" ", "A", " ">>, <<"b">> }

\* raw values fields a submission may carry
RawValues == { Null, <<"[">>, <<"[", "]">>, <<"null">>,
               <<"[", "R", ",", "G", ",", "Y", "]">> }

NoValues == [type |-> "none", items |-> <<>>]

\* precondition of the add workflow on its values: a non-empty list
ValidValues(v) == v.type = "array" /\ Len(v.items) > 0

(***************************************************************************)
(* Results of a route function.                                            *)
(***************************************************************************)
NoResult == [kind |-> "none"]
Thrown == [kind |-> "throw"]             \* the error propagated out of the function
Failure(msg) == [kind |-> "json", success |-> FALSE, error |-> msg]

MsgNoName == <<"Please enter an option name.">>
MsgNoValues == <<"Please provide three values.">>
MsgBadValues == <<"Invalid values format.">>
Sep == <<"; ">>

(***************************************************************************)
(* The pieces of the route functions that are pure.                        *)
(***************************************************************************)
\* faulty variant: the page replaces the accumulator instead of being appended to it
Accumulate_Overwrite(all, edges) == [i \in 1..Len(edges) |-> edges[i].node]

\* edges.forEach(({ node }) => allProducts.push(node))
Accumulate(all, edges) == all \o [i \in 1..Len(edges) |-> edges[i].node]

\* faulty variant: the loop goes on as long as pages are not empty
NextHasNextPage_NonEmpty(pageInfo, edges) == Len(edges) > 0

\* hasNextPage = pageInfo.hasNextPage
NextHasNextPage(pageInfo, edges) == pageInfo.hasNextPage

\* faulty variant: the cursor is not moved to the page that arrived
NextCursor_Keep(hasNext, edges) == afterCursor

\* afterCursor = hasNextPage ? edges[edges.length - 1].cursor : null
NextCursor(hasNext, edges) == IF hasNext THEN Last(edges).cursor ELSE Null

\* faulty variant: the add page matches by substring, as the remove page does
MissingOption_Includes(p, name) ==
    ~ \E i \in 1..Len(p.options) :
          includes(toLowerCase(p.options[i].name), toLowerCase(name))

\* faulty variant: the submitted name is compared as typed
MissingOption_RawName(p, name) ==
    ~ \E i \in 1..Len(p.options) : toLowerCase(p.options[i].name) = name

\* !p.options.some(o => o.name.toLowerCase() === optionName.toLowerCase())
MissingOption(p, name) ==
    ~ \E i \in 1..Len(p.options) :
          toLowerCase(p.options[i].name) = toLowerCase(name)

\* all.filter(p => ...)
ToAddOf(all, name) == SelectSeq(all, LAMBDA p : MissingOption(p, name))

\* faulty variant: the remove page matches whole names, as the add page does
Matches_Exact(o, name) == toLowerCase(o.name) = toLowerCase(name)

\* o.name.toLowerCase().includes(optionName.toLowerCase())
Matches(o, name) == includes(toLowerCase(o.name), toLowerCase(name))

\* prod.options.find(o => ...): <<o>> for the first match, Null for undefined
FindOption(prod, name) ==
    IF \E i \in 1..Len(prod.options) : Matches(prod.options[i], name)
    THEN LET i == CHOOSE i \in 1..Len(prod.options) :
                     /\ Matches(prod.options[i], name)
                     /\ \A j \in 1..(i - 1) : ~Matches(prod.options[j], name)
         IN <<prod.options[i]>>
    ELSE Null

\* if (opt.optionValues.length > 1)
NeedsTrim(o) == Len(o.optionValues) > 1

\* faulty variant: slice(0, -1), the last value is kept instead of the first
ToDelete_KeepLast(o) ==
    LET ids == [i \in 1..Len(o.optionValues) |-> o.optionValues[i].id]
    IN SubSeq(ids, 1, Len(ids) - 1)

\* faulty variant: no slice, every value is deleted
ToDelete_All(o) == [i \in 1..Len(o.optionValues) |-> o.optionValues[i].id]

\* opt.optionValues.map(v => v.id).slice(1)
ToDelete(o) ==
    LET ids == [i \in 1..Len(o.optionValues) |-> o.optionValues[i].id]
    IN SubSeq(ids, 2, Len(ids))

\* if (ue.length) / if (userErrors.length) / if (de.userErrors.length)
HasErrors(userErrors) == Len(userErrors) # 0

\* faulty variant: only the first message of a response is kept
PushErrors_FirstOnly(errs, userErrors) == errs \o <<userErrors[1]>>

\* errors.push(...userErrors.map(e => e.message))
PushErrors(errs, userErrors) == errs \o userErrors

\* [{ name: optionName, values: values.map(v => ({ name: v })) }]
OptionInput(name, items) ==
    << [name |-> name, values |-> [i \in 1..Len(items) |-> [name |-> items[i]]]] >>

\* faulty variant: the errors are ignored, the action always reports success
AddResult_IgnoreErrors(errs, ta) ==
    [kind |-> "json", success |-> TRUE, addedCount |-> Len(ta)]

\* the return statements of the add action
AddResult(errs, ta) ==
    IF Len(errs) # 0 THEN Failure(join(errs, Sep))
    ELSE [kind |-> "json", success |-> TRUE, addedCount |-> Len(ta)]

\* faulty variant: the failure carries the first message only
RemoveResult_FirstError(errs) ==
    IF Len(errs) # 0 THEN Failure(errs[1])
    ELSE [kind |-> "json", success |-> TRUE]

\* the return statements of the remove action
RemoveResult(errs) ==
    IF Len(errs) # 0 THEN Failure(join(errs, Sep))
    ELSE [kind |-> "json", success |-> TRUE]

(***************************************************************************)
(* Requests and the history of one invocation.                             *)
(***************************************************************************)
QueryOf(w) == IF w \in {"add", "addLoader"} THEN "brief" ELSE "full"

ListReq(w, after) ==
    [kind |-> "list", query |-> QueryOf(w), first |-> PageSize, after |-> after]

CreateReq(prod, name, items) ==
    [kind |-> "create", productId |-> prod.id, options |-> OptionInput(name, items)]

UpdateReq(prod, o) ==
    [kind |-> "update", productId |-> prod.id,
     option |-> [id |-> o.id, name |-> o.name, position |-> o.position],
     optionValuesToDelete |-> ToDelete(o)]

DeleteReq(prod, o) ==
    [kind |-> "delete", productId |-> prod.id, options |-> <<o.id>>]

EvReq(r) == [t |-> "req", call |-> r]
EvResp(r, resp) == [t |-> "resp", call |-> r, resp |-> resp]
EvThrow(r) == [t |-> "throw", call |-> r]

(***************************************************************************)
(* Initial state: some remote catalog, no route function running.          *)
(***************************************************************************)
\* fetcher.data before the first submission completed (undefined)
NoData == [id |-> 0, value |-> NoResult]

\* the remove page is not open
PageClosed ==
    /\ localProducts = <<>>
    /\ searchTerm = <<>>
    /\ lastTerm = <<>>
    /\ fetcherState = "idle"
    /\ fetcherData = NoData
    /\ effectDeps = <<0, 0>>
    /\ toast = "none"
    /\ successRuns = 0
    /\ successes = 0
    /\ edits = 0

ServerInit ==
    /\ catalog \in Catalogs
    /\ wf = "idle"
    /\ pc = "idle"
    /\ optionName = <<>>
    /\ values = NoValues
    /\ allProducts = <<>>
    /\ hasNextPage = FALSE
    /\ afterCursor = Null
    /\ toAdd = <<>>
    /\ idx = 0
    /\ opt = Null
    /\ errors = <<>>
    /\ result = NoResult
    /\ inflight = {}
    /\ log = <<>>
    /\ runs = 0
    /\ prev = <<>>
    /\ precond = TRUE

Init == ServerInit /\ PageClosed

\* no route function is running: none was started yet, or the last one
\* returned or threw
Quiet == pc \in {"idle", "done", "threw"}

\* summary of the invocation that just ended
Summary ==
    IF pc = "done" /\ wf = "add" /\ result.success THEN optionName ELSE <<>>

\* a new invocation starts with fresh locals
Enter(w, name, vals) ==
    /\ Quiet
    /\ runs < MaxRuns
    /\ runs' = runs + 1
    /\ prev' = Summary
    /\ wf' = w
    /\ optionName' = name
    /\ values' = vals
    /\ toAdd' = <<>>
    /\ idx' = 0
    /\ opt' = Null
    /\ errors' = <<>>
    /\ UNCHANGED catalog

\* faulty variant: the list of an earlier invocation is reused, not started afresh
BeginRead_Reuse(w) ==
    /\ allProducts' = allProducts
    /\ hasNextPage' = TRUE
    /\ afterCursor' = Null
    /\ inflight' = {ListReq(w, Null)}
    /\ log' = <<EvReq(ListReq(w, Null))>>
    /\ pc' = "read"
    /\ result' = NoResult

\* let allProducts = []; let hasNextPage = true; let afterCursor = null;
\* and the first iteration of the while loop up to its await
BeginRead(w) ==
    /\ allProducts' = <<>>
    /\ hasNextPage' = TRUE
    /\ afterCursor' = Null
    /\ inflight' = {ListReq(w, Null)}
    /\ log' = <<EvReq(ListReq(w, Null))>>
    /\ pc' = "read"
    /\ result' = NoResult

\* the function returns before its first remote call
ReturnEarly(r) ==
    /\ allProducts' = <<>>
    /\ hasNextPage' = FALSE
    /\ afterCursor' = Null
    /\ inflight' = {}
    /\ log' = <<>>
    /\ pc' = "done"
    /\ result' = r

\* loader of either page
LoaderStart(w) ==
    /\ Enter(w, <<>>, NoValues)
    /\ UNCHANGED precond
    /\ BeginRead(w)

\* remove action up to its first await
RemoveStart(rawName) ==
    LET name == FormOptionName(rawName)
    IN /\ Enter("remove", name, NoValues)
       /\ UNCHANGED precond
       /\ IF Len(name) = 0
          THEN ReturnEarly(Failure(MsgNoName))
          ELSE BeginRead("remove")

\* add action up to its first await
AddStart(rawName, rawValues) ==
    LET name == FormOptionName(rawName)
        valuesJSON == FormValues(rawValues)
        parsed == JSONparse(valuesJSON)
    IN /\ Enter("add", name, IF Len(name) # 0 /\ parsed.ok THEN parsed.value ELSE NoValues)
       /\ IF Len(name) = 0 THEN ReturnEarly(Failure(MsgNoName))
          ELSE IF Len(valuesJSON) = 0 THEN ReturnEarly(Failure(MsgNoValues))
          ELSE IF ~parsed.ok THEN ReturnEarly(Failure(MsgBadValues))
          ELSE BeginRead("add")
       /\ precond' = (precond /\ (Len(name) # 0 /\ parsed.ok => ValidValues(parsed.value)))

(***************************************************************************)
(* The for-of loops, from the head of iteration i to the next await or to  *)
(* the return.  lg is the history so far, errs the error list so far.      *)
(***************************************************************************)
\* faulty variant: the create loop stops at the first business error
AddLoopFrom_StopOnError(i, ta, errs, lg) ==
    /\ idx' = i
    /\ opt' = Null
    /\ IF i > Len(ta) \/ Len(errs) # 0
       THEN /\ pc' = "done"
            /\ result' = AddResult(errs, ta)
            /\ inflight' = {}
            /\ log' = lg
       ELSE IF values.type # "array"
       THEN /\ pc' = "threw"
            /\ result' = Thrown
            /\ inflight' = {}
            /\ log' = lg
       ELSE /\ pc' = "create"
            /\ result' = NoResult
            /\ inflight' = {CreateReq(ta[i], optionName, values.items)}
            /\ log' = lg \o <<EvReq(CreateReq(ta[i], optionName, values.items))>>

\* faulty variant: the create calls of the remaining products are issued together
AddLoopFrom_Parallel(i, ta, errs, lg) ==
    /\ idx' = i
    /\ opt' = Null
    /\ IF i > Len(ta)
       THEN /\ pc' = "done"
            /\ result' = AddResult(errs, ta)
            /\ inflight' = {}
            /\ log' = lg
       ELSE IF values.type # "array"
       THEN /\ pc' = "threw"
            /\ result' = Thrown
            /\ inflight' = {}
            /\ log' = lg
       ELSE /\ pc' = "create"
            /\ result' = NoResult
            /\ inflight' = {CreateReq(ta[j], optionName, values.items) : j \in i..Len(ta)}
            /\ log' = lg \o [j \in 1..(Len(ta) - i + 1) |->
                                EvReq(CreateReq(ta[i + j - 1], optionName, values.items))]

\* add action: for (const prod of toAdd) { ... await admin.graphql(ADD_OPTION_MUTATION ...
AddLoopFrom(i, ta, errs, lg) ==
    /\ idx' = i
    /\ opt' = Null
    /\ IF i > Len(ta)
       THEN /\ pc' = "done"
            /\ result' = AddResult(errs, ta)
            /\ inflight' = {}
            /\ log' = lg
       ELSE IF values.type # "array"
       THEN \* values.map is not a function / cannot read properties of null
            /\ pc' = "threw"
            /\ result' = Thrown
            /\ inflight' = {}
            /\ log' = lg
       ELSE /\ pc' = "create"
            /\ result' = NoResult
            /\ inflight' = {CreateReq(ta[i], optionName, values.items)}
            /\ log' = lg \o <<EvReq(CreateReq(ta[i], optionName, values.items))>>

\* products at or after position i that have a matching option
MatchesFrom(all, name, i) ==
    {j \in i..Len(all) : FindOption(all[j], name) # Null}

\* remove action, second half of an iteration: the delete call
IssueDelete(prod, o, lg) ==
    /\ pc' = "delete"
    /\ result' = NoResult
    /\ inflight' = {DeleteReq(prod, o)}
    /\ log' = lg \o <<EvReq(DeleteReq(prod, o))>>

\* remove action: for (const prod of allProducts) { find; if (!opt) continue; ...
RemoveLoopFrom(i, all, errs, lg) ==
    LET ms == MatchesFrom(all, optionName, i)
    IN IF ms = {}
       THEN /\ idx' = Len(all) + 1
            /\ opt' = Null
            /\ pc' = "done"
            /\ result' = RemoveResult(errs)
            /\ inflight' = {}
            /\ log' = lg
       ELSE LET j == CHOOSE j \in ms : \A m \in ms : j <= m
                o == FindOption(all[j], optionName)[1]
            IN /\ idx' = j
               /\ opt' = <<o>>
               /\ IF NeedsTrim(o)
                  THEN /\ pc' = "update"
                       /\ result' = NoResult
                       /\ inflight' = {UpdateReq(all[j], o)}
                       /\ log' = lg \o <<EvReq(UpdateReq(all[j], o))>>
                  ELSE IssueDelete(all[j], o, lg)

(***************************************************************************)
(* The read loop: a page arrives.                                          *)
(***************************************************************************)
\* the body of the while loop after its await
ReadStep(page) ==
    /\ allProducts' = Accumulate(allProducts, page.edges)
    /\ hasNextPage' = NextHasNextPage(page.pageInfo, page.edges)
    /\ afterCursor' = NextCursor(hasNextPage', page.edges)

\* the page says more follow: the loop issues the next request
ReadMore(req, k) ==
    LET page == ListPage(catalog, req.query, req.after, k)
    IN /\ pc = "read"
       /\ req \in inflight /\ req.kind = "list"
       /\ k \in PageLengths(catalog, req.first, req.after)
       /\ ReadStep(page)
       /\ hasNextPage'
       /\ inflight' = {ListReq(wf, afterCursor')}
       /\ log' = log \o <<EvResp(req, page), EvReq(ListReq(wf, afterCursor'))>>
       /\ UNCHANGED <<catalog, wf, pc, optionName, values, toAdd, idx, opt,
                      errors, result, runs, prev, precond>>

\* the last page arrives in a loader: return json({ products })
ReadLastLoader(req, k) ==
    LET page == ListPage(catalog, req.query, req.after, k)
    IN /\ pc = "read" /\ wf \in {"removeLoader", "addLoader"}
       /\ req \in inflight /\ req.kind = "list"
       /\ k \in PageLengths(catalog, req.first, req.after)
       /\ ReadStep(page)
       /\ ~hasNextPage'
       /\ inflight' = {}
       /\ log' = log \o <<EvResp(req, page)>>
       /\ pc' = "done"
       /\ result' = [kind |-> "json", products |-> allProducts']
       /\ UNCHANGED <<catalog, wf, optionName, values, toAdd, idx, opt,
                      errors, runs, prev, precond>>

\* the last page arrives in the add action: filter, then the create loop
ReadLastAdd(req, k) ==
    LET page == ListPage(catalog, req.query, req.after, k)
    IN /\ pc = "read" /\ wf = "add"
       /\ req \in inflight /\ req.kind = "list"
       /\ k \in PageLengths(catalog, req.first, req.after)
       /\ ReadStep(page)
       /\ ~hasNextPage'
       /\ toAdd' = ToAddOf(allProducts', optionName)
       /\ errors' = <<>>
       /\ AddLoopFrom(1, toAdd', errors', log \o <<EvResp(req, page)>>)
       /\ UNCHANGED <<catalog, wf, optionName, values, runs, prev, precond>>

\* the last page arrives in the remove action: the remove loop
ReadLastRemove(req, k) ==
    LET page == ListPage(catalog, req.query, req.after, k)
    IN /\ pc = "read" /\ wf = "remove"
       /\ req \in inflight /\ req.kind = "list"
       /\ k \in PageLengths(catalog, req.first, req.after)
       /\ ReadStep(page)
       /\ ~hasNextPage'
       /\ errors' = <<>>
       /\ RemoveLoopFrom(1, allProducts', errors', log \o <<EvResp(req, page)>>)
       /\ UNCHANGED <<catalog, wf, optionName, values, toAdd, runs, prev, precond>>

(***************************************************************************)
(* The mutation responses.                                                 *)
(***************************************************************************)
\* productOptionsCreate answers with userErrors ue
CreateResponse(req, ue) ==
    /\ pc = "create"
    /\ req \in inflight /\ req.kind = "create"
    /\ ue \in ErrorLists(req.productId)
    /\ catalog' = IF Len(ue) = 0 THEN ApplyCreate(catalog, req.productId, req.options)
                  ELSE catalog
    /\ errors' = IF HasErrors(ue) THEN PushErrors(errors, ue) ELSE errors
    /\ AddLoopFrom(idx + 1, toAdd, errors',
                   log \o <<EvResp(req, [userErrors |-> ue])>>)
    /\ UNCHANGED <<wf, optionName, values, allProducts, hasNextPage, afterCursor,
                   toAdd, runs, prev, precond>>

\* faulty variant: the errors of the update are recorded but the `continue` is missing
UpdateResponse_NoContinue(req, ue) ==
    /\ pc = "update"
    /\ req \in inflight /\ req.kind = "update"
    /\ ue \in ErrorLists(req.productId)
    /\ catalog' = IF Len(ue) = 0
                  THEN ApplyUpdate(catalog, req.productId, req.option,
                                   req.optionValuesToDelete)
                  ELSE catalog
    /\ errors' = IF HasErrors(ue) THEN PushErrors(errors, ue) ELSE errors
    /\ idx' = idx
    /\ opt' = opt
    /\ IssueDelete(allProducts[idx], opt[1],
                   log \o <<EvResp(req, [userErrors |-> ue])>>)
    /\ UNCHANGED <<wf, optionName, values, allProducts, hasNextPage, afterCursor,
                   toAdd, runs, prev, precond>>

\* productOptionUpdate answers with userErrors ue
UpdateResponse(req, ue) ==
    /\ pc = "update"
    /\ req \in inflight /\ req.kind = "update"
    /\ ue \in ErrorLists(req.productId)
    /\ catalog' = IF Len(ue) = 0
                  THEN ApplyUpdate(catalog, req.productId, req.option,
                                   req.optionValuesToDelete)
                  ELSE catalog
    /\ IF HasErrors(ue)
       THEN \* errors.push(...); continue;
            /\ errors' = PushErrors(errors, ue)
            /\ RemoveLoopFrom(idx + 1, allProducts, errors',
                              log \o <<EvResp(req, [userErrors |-> ue])>>)
       ELSE /\ errors' = errors
            /\ idx' = idx
            /\ opt' = opt
            /\ IssueDelete(allProducts[idx], opt[1],
                           log \o <<EvResp(req, [userErrors |-> ue])>>)
    /\ UNCHANGED <<wf, optionName, values, allProducts, hasNextPage, afterCursor,
                   toAdd, runs, prev, precond>>

\* faulty variant: a delete call that reported errors is issued again
DeleteResponse_Retry(req, ue) ==
    /\ pc = "delete"
    /\ req \in inflight /\ req.kind = "delete"
    /\ ue \in ErrorLists(req.productId)
    /\ catalog' = IF Len(ue) = 0 THEN ApplyDelete(catalog, req.productId, req.options)
                  ELSE catalog
    /\ errors' = IF HasErrors(ue) THEN PushErrors(errors, ue) ELSE errors
    /\ IF HasErrors(ue)
       THEN /\ idx' = idx
            /\ opt' = opt
            /\ IssueDelete(allProducts[idx], opt[1],
                           log \o <<EvResp(req, [userErrors |-> ue])>>)
       ELSE RemoveLoopFrom(idx + 1, allProducts, errors',
                           log \o <<EvResp(req, [userErrors |-> ue])>>)
    /\ UNCHANGED <<wf, optionName, values, allProducts, hasNextPage, afterCursor,
                   toAdd, runs, prev, precond>>

\* productOptionsDelete answers with userErrors ue
DeleteResponse(req, ue) ==
    /\ pc = "delete"
    /\ req \in inflight /\ req.kind = "delete"
    /\ ue \in ErrorLists(req.productId)
    /\ catalog' = IF Len(ue) = 0 THEN ApplyDelete(catalog, req.productId, req.options)
                  ELSE catalog
    /\ errors' = IF HasErrors(ue) THEN PushErrors(errors, ue) ELSE errors
    /\ RemoveLoopFrom(idx + 1, allProducts, errors',
                      log \o <<EvResp(req, [userErrors |-> ue])>>)
    /\ UNCHANGED <<wf, optionName, values, allProducts, hasNextPage, afterCursor,
                   toAdd, runs, prev, precond>>

\* faulty variant: a rejected call is issued again
TransportFailure_Retry(req) ==
    /\ pc \in {"read", "create", "update", "delete"}
    /\ req \in inflight
    /\ log' = log \o <<EvThrow(req), EvReq(req)>>
    /\ UNCHANGED <<catalog, wf, pc, optionName, values, allProducts, hasNextPage,
                   afterCursor, toAdd, idx, opt, errors, result, inflight, runs,
                   prev, precond>>

\* the awaited call rejects (transport / authentication failure): nothing
\* catches it, the error leaves the route function
TransportFailure(req) ==
    /\ pc \in {"read", "create", "update", "delete"}
    /\ req \in inflight
    /\ pc' = "threw"
    /\ result' = Thrown
    /\ inflight' = {}
    /\ log' = log \o <<EvThrow(req)>>
    /\ UNCHANGED <<catalog, wf, optionName, values, allProducts, hasNextPage,
                   afterCursor, toAdd, idx, opt, errors, runs, prev, precond>>

Next ==
    \/ \E w \in {"removeLoader", "addLoader"} : LoaderStart(w) /\ UNCHANGED pageVars
    \/ \E rawName \in RawNames : RemoveStart(rawName) /\ UNCHANGED pageVars
    \/ \E rawName \in RawNames, rawValues \in RawValues : AddStart(rawName, rawValues) /\ UNCHANGED pageVars
    \/ \E req \in inflight, k \in 0..MaxProducts : ReadMore(req, k) /\ UNCHANGED pageVars
    \/ \E req \in inflight, k \in 0..MaxProducts : ReadLastLoader(req, k) /\ UNCHANGED pageVars
    \/ \E req \in inflight, k \in 0..MaxProducts : ReadLastAdd(req, k) /\ UNCHANGED pageVars
    \/ \E req \in inflight, k \in 0..MaxProducts : ReadLastRemove(req, k) /\ UNCHANGED pageVars
    \/ \E req \in inflight : \E ue \in AllErrorLists : CreateResponse(req, ue) /\ UNCHANGED pageVars
    \/ \E req \in inflight : \E ue \in AllErrorLists : UpdateResponse(req, ue) /\ UNCHANGED pageVars
    \/ \E req \in inflight : \E ue \in AllErrorLists : DeleteResponse(req, ue) /\ UNCHANGED pageVars
    \/ \E req \in inflight : TransportFailure(req) /\ UNCHANGED pageVars

Spec == Init /\ [][Next]_vars

\* a page request is answered in the end
PageArrives ==
    /\ \E req \in inflight, k \in 0..MaxProducts :
          \/ ReadMore(req, k) \/ ReadLastLoader(req, k)
          \/ ReadLastAdd(req, k) \/ ReadLastRemove(req, k)
    /\ UNCHANGED pageVars

\* the read loops alone: a route function starts and pages arrive until the
\* loop is left; the remote answers every page request in the end
ReadNext ==
    \/ \E w \in {"removeLoader", "addLoader"} : LoaderStart(w) /\ UNCHANGED pageVars
    \/ \E rawName \in RawNames : RemoveStart(rawName) /\ UNCHANGED pageVars
    \/ \E rawName \in RawNames, rawValues \in RawValues : AddStart(rawName, rawValues) /\ UNCHANGED pageVars
    \/ \E req \in inflight, k \in 0..MaxProducts : ReadMore(req, k) /\ UNCHANGED pageVars
    \/ \E req \in inflight, k \in 0..MaxProducts : ReadLastLoader(req, k) /\ UNCHANGED pageVars
    \/ \E req \in inflight, k \in 0..MaxProducts : ReadLastAdd(req, k) /\ UNCHANGED pageVars
    \/ \E req \in inflight, k \in 0..MaxProducts : ReadLastRemove(req, k) /\ UNCHANGED pageVars

ReadFairSpec == Init /\ [][ReadNext]_vars /\ WF_vars(PageArrives)

(***************************************************************************)
(* The remove page (component Index).  It is rendered with the products    *)
(* the loader returned; the user edits the search field and presses the    *)
(* Remove button, which submits the trimmed term to the remove action;     *)
(* when the action has returned, its result is fetcher.data.  After every  *)
(* render React runs the result effect if one of its dependencies          *)
(* [fetcher.data, filtered.length, shopify] differs from the render the    *)
(* effect last ran in; effects are flushed before the next user event is   *)
(* handled.                                                                *)
(***************************************************************************)
\* what the user types into the search field
SearchTerms == { <<>>, <<"A">>, <<"b">> }

\* localProducts.filter(p => p.options.some(o => ...)) of the useMemo
Filtered ==
    IF Len(trim(searchTerm)) = 0 THEN localProducts
    ELSE SelectSeq(localProducts,
                   LAMBDA p : \E i \in 1..Len(p.options) :
                       includes(toLowerCase(p.options[i].name), toLowerCase(searchTerm)))

\* fetcher.data?.error / fetcher.data?.success
DataError == "error" \in DOMAIN fetcherData.value /\ Len(fetcherData.value.error) # 0
DataSuccess == "success" \in DOMAIN fetcherData.value /\ fetcherData.value.success

\* the dependencies of the result effect in the current render; shopify never changes
EffectDeps == <<fetcherData.id, Len(Filtered)>>

\* the effect has to run after the current render
EffectPending == EffectDeps # effectDeps

\* prev.map(p => ({ ...p, options: p.options.filter(o => !o.name...includes(term...)) }))
DropOption(ps, term) ==
    [i \in 1..Len(ps) |->
        [ps[i] EXCEPT !.options =
            SelectSeq(@, LAMBDA o : ~includes(toLowerCase(o.name), toLowerCase(term)))]]

\* the page is rendered for the first time with the loader's products; the
\* result effect ran after that render and found no fetcher.data
PageMounted ==
    /\ localProducts = [i \in 1..Len(catalog) |-> FullNode(catalog[i])]
    /\ searchTerm = <<>>
    /\ lastTerm = <<>>
    /\ fetcherState = "idle"
    /\ fetcherData = NoData
    /\ effectDeps = <<0, Len(catalog)>>
    /\ toast = "none"
    /\ successRuns = 0
    /\ successes = 0
    /\ edits = 0

PageInit == ServerInit /\ PageMounted

\* onChange={setSearchTerm} / onClearButtonClick
TypeSearch(t) ==
    /\ fetcherState # "error"
    /\ ~EffectPending
    /\ edits < MaxEdits
    /\ t # searchTerm
    /\ searchTerm' = t
    /\ edits' = edits + 1
    /\ UNCHANGED <<localProducts, lastTerm, fetcherState, fetcherData, effectDeps,
                   toast, successRuns, successes>>
    /\ UNCHANGED serverVars

\* onClick of the Remove button with an empty term: a toast and nothing else
ClickEmpty ==
    /\ fetcherState = "idle"
    /\ ~EffectPending
    /\ Len(trim(searchTerm)) = 0
    /\ toast' = "enterName"
    /\ UNCHANGED <<localProducts, searchTerm, lastTerm, fetcherState, fetcherData,
                   effectDeps, successRuns, successes, edits>>
    /\ UNCHANGED serverVars

\* onClick of the Remove button: lastTerm.current = term; fetcher.submit(...),
\* which runs the remove action with the term as form field optionName
ClickSubmit ==
    /\ fetcherState = "idle"
    /\ ~EffectPending
    /\ Len(trim(searchTerm)) # 0
    /\ lastTerm' = trim(searchTerm)
    /\ fetcherState' = "submitting"
    /\ RemoveStart(trim(searchTerm))
    /\ UNCHANGED <<localProducts, searchTerm, fetcherData, effectDeps, toast,
                   successRuns, successes, edits>>

\* the remove action returned: its result becomes fetcher.data
FetcherDone ==
    /\ fetcherState = "submitting"
    /\ ~EffectPending
    /\ pc = "done"
    /\ fetcherState' = "idle"
    /\ fetcherData' = [id |-> runs, value |-> result]
    /\ successes' = IF result.success THEN successes + 1 ELSE successes
    /\ UNCHANGED <<localProducts, searchTerm, lastTerm, effectDeps, toast,
                   successRuns, edits>>
    /\ UNCHANGED serverVars

\* the remove action threw: the route's error boundary replaces the page
FetcherFailed ==
    /\ fetcherState = "submitting"
    /\ pc = "threw"
    /\ fetcherState' = "error"
    /\ UNCHANGED <<localProducts, searchTerm, lastTerm, fetcherData, effectDeps,
                   toast, successRuns, successes, edits>>
    /\ UNCHANGED serverVars

\* useEffect(() => { if (fetcher.data?.error) ... else if (fetcher.data?.success) ... },
\*           [fetcher.data, filtered.length, shopify])
RunEffect ==
    /\ fetcherState # "error"
    /\ EffectPending
    /\ effectDeps' = EffectDeps
    /\ IF DataError
       THEN /\ toast' = "error"
            /\ UNCHANGED <<localProducts, searchTerm, successRuns>>
       ELSE IF DataSuccess
       THEN /\ localProducts' = DropOption(localProducts, lastTerm)
            /\ toast' = "removed"
            /\ searchTerm' = <<>>
            /\ successRuns' = successRuns + 1
       ELSE UNCHANGED <<localProducts, searchTerm, toast, successRuns>>
    /\ UNCHANGED <<lastTerm, fetcherState, fetcherData, successes, edits>>
    /\ UNCHANGED serverVars

PageNext ==
    \/ \E t \in SearchTerms : TypeSearch(t)
    \/ ClickEmpty
    \/ ClickSubmit
    \/ \E req \in inflight, k \in 0..MaxProducts : ReadMore(req, k) /\ UNCHANGED pageVars
    \/ \E req \in inflight, k \in 0..MaxProducts :
          ReadLastRemove(req, k) /\ UNCHANGED pageVars
    \/ \E req \in inflight : \E ue \in AllErrorLists :
          UpdateResponse(req, ue) /\ UNCHANGED pageVars
    \/ \E req \in inflight : \E ue \in AllErrorLists :
          DeleteResponse(req, ue) /\ UNCHANGED pageVars
    \/ \E req \in inflight : TransportFailure(req) /\ UNCHANGED pageVars
    \/ FetcherDone
    \/ FetcherFailed
    \/ RunEffect

PageSpec == PageInit /\ [][PageNext]_vars

(***************************************************************************)
(* Reading the history.                                                    *)
(***************************************************************************)
IsReq(e, kinds) == e.t = "req" /\ e.call.kind \in kinds
IsResp(e, kinds) == e.t = "resp" /\ e.call.kind \in kinds
IsLastPage(e) == IsResp(e, {"list"}) /\ ~e.resp.pageInfo.hasNextPage
Mutations == {"create", "update", "delete"}

\* the pages the remote returned in this invocation, in order
Pages ==
    LET rs == SelectSeq(log, LAMBDA e : IsResp(e, {"list"}))
    IN [i \in 1..Len(rs) |-> rs[i].resp]

RECURSIVE ConcatNodes(_)
ConcatNodes(ps) ==
    IF ps = <<>> THEN <<>>
    ELSE [i \in 1..Len(ps[1].edges) |-> ps[1].edges[i].node] \o ConcatNodes(Tail(ps))

RECURSIVE SumSizes(_)
SumSizes(ps) == IF ps = <<>> THEN 0 ELSE Len(ps[1].edges) + SumSizes(Tail(ps))

\* a page with hasNextPage = false arrived and the read loop was left
ReadFinished == pc # "read" /\ \E i \in 1..Len(log) : IsLastPage(log[i])

\* the mutation requests issued so far, in order
MutationReqs == SelectSeq(log, LAMBDA e : IsReq(e, Mutations))
\* the mutation responses received so far, in order
MutationResps == SelectSeq(log, LAMBDA e : IsResp(e, Mutations))

Ids(ps) == [i \in 1..Len(ps) |-> ps[i].id]
NoDuplicates(seq) == \A i, j \in 1..Len(seq) : seq[i] = seq[j] => i = j

\* equality and containment of names ignoring case, character by character
SameLetter(c, d) == c = d \/ {c, d} \in {{"a", "A"}, {"b", "B"}}
EqualIgnoringCase(a, b) ==
    Len(a) = Len(b) /\ \A i \in 1..Len(a) : SameLetter(a[i], b[i])
ContainsIgnoringCase(a, b) ==
    \E off \in 0..(Len(a) - Len(b)) : \A i \in 1..Len(b) : SameLetter(a[off + i], b[i])

(***************************************************************************)
(* C1: when the read loop of a loader or of an action has ended, the       *)
(* accumulated list is exactly the concatenation of the returned pages'    *)
(* products in return order: its length is the sum of the page sizes, no   *)
(* product occurs twice, none of the remote catalog is missing, and a      *)
(* loader returns exactly that list.                                       *)
(***************************************************************************)
C1_ReadIsConcatenationOfPages ==
    ReadFinished =>
        /\ allProducts = ConcatNodes(Pages)
        /\ Len(allProducts) = SumSizes(Pages)
        /\ NoDuplicates(Ids(allProducts))
        /\ Ids(allProducts) = [i \in 1..Len(catalog) |-> catalog[i].id]
        /\ (MutationResps = <<>> =>
              allProducts = [i \in 1..Len(catalog) |->
                               IF QueryOf(wf) = "brief" THEN BriefNode(catalog[i])
                               ELSE FullNode(catalog[i])])
        /\ (wf \in {"removeLoader", "addLoader"} /\ pc = "done" =>
              result.products = allProducts)

\* a read of two pages has ended
C1_Witness ==
    /\ ReadFinished
    /\ Len(Pages) >= 2
    /\ Len(allProducts) = MaxProducts

(***************************************************************************)
(* C2: the read loop terminates (the remote catalog is finite and every    *)
(* page moves the cursor forward), and no page request is issued after the *)
(* first response whose hasNextPage is false.                              *)
(***************************************************************************)
NoFetchAfterLastPage ==
    \A i, j \in 1..Len(log) :
        IsLastPage(log[i]) /\ i < j => ~IsReq(log[j], {"list"})

C2_ReadTerminates ==
    /\ (pc = "read") ~> (pc # "read")
    /\ []NoFetchAfterLastPage

\* a read that took more than one page has ended with a last page
C2_Witness ==
    /\ ReadFinished
    /\ Len(Pages) >= 2
    /\ IsLastPage(log[Len(log)])

(***************************************************************************)
(* C3: in the add action, once toAdd is computed, a product of the re-read *)
(* catalog is in toAdd iff none of its options has a name equal to the     *)
(* trimmed option name ignoring case; toAdd keeps the catalog order.       *)
(***************************************************************************)
LacksOption(p, name) ==
    \A i \in 1..Len(p.options) : ~EqualIgnoringCase(p.options[i].name, name)

IsSubsequenceInOrder(sub, seq) ==
    \E f \in [1..Len(sub) -> 1..Len(seq)] :
        /\ \A i \in 1..Len(sub) : sub[i] = seq[f[i]]
        /\ \A i, j \in 1..Len(sub) : i < j => f[i] < f[j]

C3_ToAddIffOptionMissing ==
    wf = "add" /\ ReadFinished =>
        /\ \A i \in 1..Len(allProducts) :
              (\E j \in 1..Len(toAdd) : toAdd[j] = allProducts[i])
                  <=> LacksOption(allProducts[i], optionName)
        /\ IsSubsequenceInOrder(toAdd, allProducts)

\* one product is kept out of toAdd by an option whose name differs from the
\* submitted name in case only, another product is in toAdd
C3_Witness ==
    /\ wf = "add" /\ ReadFinished
    /\ toAdd # <<>>
    /\ \E i \in 1..Len(allProducts) :
          /\ ~LacksOption(allProducts[i], optionName)
          /\ \A k \in 1..Len(allProducts[i].options) :
                allProducts[i].options[k].name # optionName

(***************************************************************************)
(* C4: in the add action the create-option calls go, one each and in       *)
(* catalog order, to the products of toAdd and to no product that has the  *)
(* option; when the action returns (no call rejected, nothing thrown)      *)
(* every product of toAdd got its call, also after a business error of an  *)
(* earlier product.                                                        *)
(***************************************************************************)
CreateReqs == SelectSeq(log, LAMBDA e : IsReq(e, {"create"}))

ProductOf(all, id) == CHOOSE p \in {all[i] : i \in 1..Len(all)} : p.id = id

FailedResps == SelectSeq(MutationResps, LAMBDA e : Len(e.resp.userErrors) # 0)

RECURSIVE ConcatErrors(_)
ConcatErrors(rs) ==
    IF rs = <<>> THEN <<>> ELSE rs[1].resp.userErrors \o ConcatErrors(Tail(rs))

Returned == wf \in {"add", "remove"} /\ pc = "done" /\ ReadFinished

\* C5 as stated: when the workflow returns, the aggregate error list has
\* exactly m entries, and the workflow reports failure if m > 0
C5_Original ==
    Returned =>
        /\ Len(errors) = Len(FailedResps)
        /\ (Len(FailedResps) > 0 => ~result.success)

\* C5 amended: the aggregate error list holds every error message returned,
\* in call order: at least m entries, exactly m when every failing call
\* returned a single descriptor; the workflow reports failure iff m > 0
C5_Amended ==
    Returned =>
        /\ errors = ConcatErrors(MutationResps)
        /\ Len(errors) >= Len(FailedResps)
        /\ ((\A i \in 1..Len(FailedResps) : Len(FailedResps[i].resp.userErrors) = 1)
               => Len(errors) = Len(FailedResps))
        /\ (result.success <=> Len(FailedResps) = 0)

\* a workflow returned after one call reported one error and another call two
C5_Witness ==
    /\ Returned
    /\ \E i, j \in 1..Len(FailedResps) :
          /\ Len(FailedResps[i].resp.userErrors) = 1
          /\ Len(FailedResps[j].resp.userErrors) = 2

(***************************************************************************)
(* C6: idempotence of add.  When the previous invocation was an add of the *)
(* same option name that reported success, toAdd is empty and no           *)
(* create-option call is issued.                                           *)
(***************************************************************************)
C6_SecondAddFindsNothingToAdd ==
    wf = "add" /\ ReadFinished /\ prev = optionName =>
        /\ toAdd = <<>>
        /\ CreateReqs = <<>>

\* the second add of "b", an option no product had before the first add
C6_Witness ==
    /\ wf = "add" /\ ReadFinished /\ prev = optionName
    /\ optionName = <<"b">>
    /\ Len(allProducts) = MaxProducts
    /\ pc = "done"

(***************************************************************************)
(* The remove action seen from its history.                                *)
(***************************************************************************)
\* positions, in p's option order, of the options whose name contains name
MatchPositions(p, name) ==
    {i \in 1..Len(p.options) : ContainsIgnoringCase(p.options[i].name, name)}

HasMatch(p, name) == MatchPositions(p, name) # {}

\* the first option of p, in p's option order, whose name contains name
FirstMatch(p, name) ==
    LET ms == MatchPositions(p, name)
    IN p.options[CHOOSE i \in ms : \A j \in ms : i <= j]

\* the option an update-option or delete-option request acts on
TargetOf(call) == IF call.kind = "update" THEN call.option.id ELSE call.options[1]

\* positions in the history of the requests of the given kinds for product id
ReqPositions(kinds, id) ==
    {i \in 1..Len(log) : IsReq(log[i], kinds) /\ log[i].call.productId = id}

(***************************************************************************)
(* C7: in the remove action, mutation calls are issued for a product of    *)
(* the re-read catalog iff one of its option names contains the trimmed    *)
(* search term ignoring case, and every call acts on the first such option *)
(* in the product's option order.                                          *)
(***************************************************************************)
C7_CallsIffOptionMatches ==
    wf = "remove" /\ ReadFinished =>
        /\ \A i \in 1..Len(log) :
              IsReq(log[i], Mutations) =>
                 LET p == ProductOf(allProducts, log[i].call.productId)
                 IN /\ log[i].call.kind \in {"update", "delete"}
                    /\ HasMatch(p, optionName)
                    /\ (log[i].call.kind = "delete" => Len(log[i].call.options) = 1)
                    /\ TargetOf(log[i].call) = FirstMatch(p, optionName).id
        /\ (pc = "done" =>
              \A j \in 1..Len(allProducts) :
                  HasMatch(allProducts[j], optionName)
                     <=> ReqPositions({"update", "delete"}, allProducts[j].id) # {})

\* a remove returned: one product had no matching option, for another the
\* matching option was not its first option and differed in case
C7_Witness ==
    /\ wf = "remove" /\ pc = "done" /\ ReadFinished
    /\ \E j \in 1..Len(allProducts) : ~HasMatch(allProducts[j], optionName)
    /\ \E j \in 1..Len(allProducts) :
          /\ HasMatch(allProducts[j], optionName)
          /\ 1 \notin MatchPositions(allProducts[j], optionName)
          /\ ~includes(FirstMatch(allProducts[j], optionName).name, optionName)
          /\ ReqPositions({"delete"}, allProducts[j].id) # {}

(***************************************************************************)
(* C8: for a matched option with k > 1 values exactly one update-option    *)
(* call is issued for the product, and its delete-list is the k-1 value    *)
(* ids after the first, in their order; for a matched option with at most  *)
(* one value no update-option call is issued and the delete-option call is *)
(* issued directly.                                                        *)
(***************************************************************************)
ValueIds(o) == [i \in 1..Len(o.optionValues) |-> o.optionValues[i].id]

C8_TrimDeletesAllButFirstValue ==
    wf = "remove" /\ ReadFinished =>
        \A j \in 1..Len(allProducts) :
            LET p == allProducts[j]
                ups == ReqPositions({"update"}, p.id)
                dels == ReqPositions({"delete"}, p.id)
                o == FirstMatch(p, optionName)
                k == Len(o.optionValues)
            IN /\ ups \cup dels # {} => HasMatch(p, optionName)
               /\ Cardinality(ups) <= 1
               /\ Cardinality(dels) <= 1
               /\ \A i \in ups :
                     /\ k > 1
                     /\ Len(log[i].call.optionValuesToDelete) = k - 1
                     /\ \A n \in 1..(k - 1) :
                           log[i].call.optionValuesToDelete[n] = ValueIds(o)[n + 1]
                     /\ \A n \in 1..(k - 1) :
                           log[i].call.optionValuesToDelete[n] # ValueIds(o)[1]
               /\ \A i \in dels : k <= 1 => ups = {}
               /\ (pc = "done" /\ HasMatch(p, optionName) =>
                     IF k > 1 THEN Cardinality(ups) = 1
                     ELSE ups = {} /\ Cardinality(dels) = 1)

\* a remove returned: for one product an option of three values was trimmed
\* by an update call, for another the delete call was issued directly
C8_Witness ==
    /\ wf = "remove" /\ pc = "done" /\ ReadFinished
    /\ \E i \in 1..Len(log) :
          IsReq(log[i], {"update"}) /\ Len(log[i].call.optionValuesToDelete) = 2
    /\ \E j \in 1..Len(allProducts) :
          /\ ReqPositions({"update"}, allProducts[j].id) = {}
          /\ ReqPositions({"delete"}, allProducts[j].id) # {}

(***************************************************************************)
(* C9: a delete-option call for a product is issued only right after that  *)
(* product's update-option call, when one was needed, returned without     *)
(* errors; when the update-option call reports errors they are recorded,   *)
(* no delete-option call is issued for the product, and the loop goes on   *)
(* with the next matching product.                                         *)
(***************************************************************************)
\* position of product id in the re-read catalog
PositionOf(id) == CHOOSE j \in 1..Len(allProducts) : allProducts[j].id = id

C9_DeleteOnlyAfterCleanUpdate ==
    wf = "remove" /\ ReadFinished =>
        /\ \A i \in 1..Len(log) :
              IsReq(log[i], {"delete"}) =>
                 LET id == log[i].call.productId
                     o == FirstMatch(ProductOf(allProducts, id), optionName)
                 IN IF Len(o.optionValues) > 1
                    THEN /\ i > 1
                         /\ IsResp(log[i - 1], {"update"})
                         /\ log[i - 1].call.productId = id
                         /\ Len(log[i - 1].resp.userErrors) = 0
                    ELSE ReqPositions({"update"}, id) = {}
        /\ \A i \in 1..Len(log) :
              IsResp(log[i], {"update"}) /\ Len(log[i].resp.userErrors) # 0 =>
                 LET id == log[i].call.productId
                     later == {j \in (PositionOf(id) + 1)..Len(allProducts) :
                                  HasMatch(allProducts[j], optionName)}
                 IN /\ ReqPositions({"delete"}, id) = {}
                    /\ errors = ConcatErrors(MutationResps)
                    /\ Len(errors) >= Len(log[i].resp.userErrors)
                    /\ IF i < Len(log)
                       THEN /\ IsReq(log[i + 1], {"update", "delete"})
                            /\ later # {}
                            /\ PositionOf(log[i + 1].call.productId)
                                  = CHOOSE j \in later : \A m \in later : j <= m
                       ELSE pc = "done" /\ later = {}

\* an update call reported errors and the loop went on with another product
C9_Witness ==
    /\ wf = "remove" /\ ReadFinished
    /\ \E i \in 1..(Len(log) - 1) :
          /\ IsResp(log[i], {"update"})
          /\ Len(log[i].resp.userErrors) # 0
          /\ IsReq(log[i + 1], {"update", "delete"})
          /\ log[i + 1].call.productId # log[i].call.productId

Rejected ==
    /\ pc = "done"
    /\ result.kind = "json"
    /\ ~result.success
    /\ Len(result.error) > 0
    /\ log = <<>>
    /\ inflight = {}

\* the submitted value list is a list without entries
EmptyValueList == values.type = "array" /\ Len(values.items) = 0

(***************************************************************************)
(* C11: malformed input is rejected before any remote call.  In the add    *)
(* action an option name that is empty after trimming, or a value list     *)
(* that is absent, unparseable or empty, ends the invocation with a        *)
(* validation failure (success = false and a message) and no listing or    *)
(* mutation call; in the remove action an option name that is empty after  *)
(* trimming does the same.                                                 *)
(***************************************************************************)
C11_Original ==
    /\ wf = "add" /\ (Len(optionName) = 0 \/ values = NoValues \/ EmptyValueList)
          => Rejected
    /\ wf = "remove" /\ Len(optionName) = 0 => Rejected

\* what the validation of the two actions does reject: an empty name, an
\* absent or empty values text, a values text that JSON.parse refuses
C11_RejectsWhatItDetects ==
    /\ wf = "add" /\ (Len(optionName) = 0 \/ values = NoValues) => Rejected
    /\ wf = "remove" /\ Len(optionName) = 0 => Rejected
    /\ wf \in {"add", "remove"} /\ pc = "done" /\ log = <<>> =>
          result \in {Failure(MsgNoName), Failure(MsgNoValues), Failure(MsgBadValues)}

\* an add was given the text of an empty list: the catalog was re-read and a
\* create-option call without values was issued
C11_Witness ==
    /\ wf = "add" /\ EmptyValueList
    /\ \E i \in 1..Len(log) :
          /\ IsReq(log[i], {"create"})
          /\ log[i].call.options[1].values = <<>>

(***************************************************************************)
(* C12: a transport failure aborts the whole invocation.  The rejected     *)
(* call is the last event of the invocation: it is not issued again and no *)
(* other call follows; when it was a page fetch, no mutation call was      *)
(* issued at all; the invocation ends with the error propagating, neither  *)
(* with a success result nor with an aggregated failure.                   *)
(***************************************************************************)
ThrowPositions == {i \in 1..Len(log) : log[i].t = "throw"}

C12_TransportFailureAborts ==
    /\ \A i \in ThrowPositions :
          /\ i = Len(log)
          /\ i > 1
          /\ log[i - 1] = EvReq(log[i].call)
          /\ \A j \in 1..Len(log) :
                log[j].t = "req" /\ log[j].call = log[i].call => j = i - 1
          /\ (log[i].call.kind = "list" => MutationReqs = <<>>)
          /\ pc = "threw"
          /\ inflight = {}
    /\ pc = "threw" => result.kind = "throw"
    /\ result.kind = "json" => pc = "done" /\ ThrowPositions = {}

\* a remove was aborted by a rejected mutation call after an earlier call
\* had been answered, and a later product with a matching option got no call
C12_Witness ==
    /\ wf = "remove" /\ pc = "threw"
    /\ ThrowPositions # {}
    /\ log[Len(log)].call.kind \in Mutations
    /\ MutationResps # <<>>
    /\ \E j \in 1..Len(allProducts) :
          /\ HasMatch(allProducts[j], optionName)
          /\ ReqPositions(Mutations, allProducts[j].id) = {}

\* an add was aborted by a rejected page fetch of its re-read
C12_WitnessRead ==
    /\ wf = "add" /\ pc = "threw"
    /\ ThrowPositions # {}
    /\ log[Len(log)].call.kind = "list"
    /\ Len(Pages) >= 1

(***************************************************************************)
(* Results of the two actions seen from the history.                       *)
(***************************************************************************)
RECURSIVE Joined(_)
\* the messages one after the other, "; " between two of them
Joined(msgs) ==
    IF Len(msgs) = 0 THEN <<>>
    ELSE IF Len(msgs) = 1 THEN msgs[1]
    ELSE Joined(SubSeq(msgs, 1, Len(msgs) - 1)) \o <<"; ">> \o msgs[Len(msgs)]

\* every call issued in this invocation was answered
AllAnswered == log # <<>> /\ log[Len(log)].t = "resp"

(***************************************************************************)
(* C13: when the remove action returns, it reports success iff no          *)
(* update-option or delete-option call of the invocation reported an       *)
(* error; otherwise it reports failure with all recorded messages joined   *)
(* into one; and there is no result before every product was processed.    *)
(***************************************************************************)
C13_RemoveResult ==
    /\ wf = "remove" /\ pc = "done" /\ ReadFinished =>
          /\ result.kind = "json"
          /\ (result.success <=> FailedResps = <<>>)
          /\ (result.success => DOMAIN result = {"kind", "success"})
          /\ (~result.success =>
                /\ DOMAIN result = {"kind", "success", "error"}
                /\ result.error = Joined(ConcatErrors(MutationResps)))
          /\ AllAnswered
          /\ \A j \in 1..Len(allProducts) :
                HasMatch(allProducts[j], optionName) =>
                    ReqPositions({"update", "delete"}, allProducts[j].id) # {}
    /\ wf = "remove" /\ pc \in {"read", "update", "delete"} => result = NoResult

\* a remove returned failure after an update-option call of one product and
\* a delete-option call of another reported errors
C13_Witness ==
    /\ wf = "remove" /\ pc = "done" /\ ReadFinished
    /\ ~result.success
    /\ \E i, j \in 1..Len(FailedResps) :
          /\ FailedResps[i].call.kind = "update"
          /\ FailedResps[j].call.kind = "delete"
    /\ Len(result.error) >= 5

(***************************************************************************)
(* C14: when the add action returns, it reports success, with a count,     *)
(* only when no create-option call reported an error, and then addedCount  *)
(* is the size of toAdd, which is the number of create-option calls issued *)
(* and answered without errors; when a create-option call reported an      *)
(* error the result is a failure with the joined messages and no count.    *)
(***************************************************************************)
CreateResps == SelectSeq(log, LAMBDA e : IsResp(e, {"create"}))
CleanCreateResps == SelectSeq(CreateResps, LAMBDA e : Len(e.resp.userErrors) = 0)

C14_WitnessFailure ==
    /\ wf = "add" /\ pc = "done" /\ ReadFinished
    /\ ~result.success
    /\ CleanCreateResps # <<>>

(***************************************************************************)
(* C15: within one invocation at most one remote call is outstanding.  A   *)
(* call is issued only after the previous call was answered; page fetches  *)
(* are issued in cursor order and mutation calls in the order of the       *)
(* products in the catalog list.                                           *)
(***************************************************************************)
ListReqs == SelectSeq(log, LAMBDA e : IsReq(e, {"list"}))

\* position in the catalog a cursor stands for (0: no cursor)
CursorPosition(c) == IF c = Null THEN 0 ELSE c[1]

\* position of product id in the re-read catalog, 0 when it is not in it
SnapshotPosition(id) ==
    IF \E j \in 1..Len(allProducts) : allProducts[j].id = id
    THEN CHOOSE j \in 1..Len(allProducts) : allProducts[j].id = id
    ELSE 0

C15_OneCallAtATime ==
    /\ Cardinality(inflight) <= 1
    /\ inflight = IF log # <<>> /\ log[Len(log)].t = "req"
                  THEN {log[Len(log)].call} ELSE {}
    /\ \A i \in 1..Len(log) :
          /\ (log[i].t = "req" /\ i > 1 => log[i - 1].t = "resp")
          /\ (log[i].t \in {"resp", "throw"} =>
                i > 1 /\ log[i - 1] = EvReq(log[i].call))
    /\ \A i, j \in 1..Len(ListReqs) :
          i < j => CursorPosition(ListReqs[i].call.after)
                      < CursorPosition(ListReqs[j].call.after)
    /\ \A i, j \in 1..Len(MutationReqs) :
          i < j =>
             /\ SnapshotPosition(MutationReqs[i].call.productId) >= 1
             /\ SnapshotPosition(MutationReqs[i].call.productId)
                   <= SnapshotPosition(MutationReqs[j].call.productId)
             /\ (MutationReqs[i].call.kind = MutationReqs[j].call.kind =>
                   SnapshotPosition(MutationReqs[i].call.productId)
                      < SnapshotPosition(MutationReqs[j].call.productId))

\* an invocation fetched two pages and then issued mutation calls for two
\* products, all of them answered
C15_Witness ==
    /\ pc = "done"
    /\ Len(ListReqs) >= 2
    /\ Len(MutationReqs) >= 2
    /\ MutationReqs[1].call.productId # MutationReqs[Len(MutationReqs)].call.productId

(***************************************************************************)
(* C16: an action decides its targets from a snapshot of the catalog that  *)
(* it reads in full itself.  Its page fetches come after the validation of *)
(* the input and before its first mutation call, none comes after;  the    *)
(* snapshot is the concatenation of the pages of this invocation, every    *)
(* mutation call is for a product of it, and it does not change from the   *)
(* end of the read to the end of the invocation.                           *)
(***************************************************************************)
IsAction == wf \in {"add", "remove"}

\* the option of the snapshot with the given id, in product p
SnapshotOption(p, id) ==
    CHOOSE o \in {p.options[k] : k \in 1..Len(p.options)} : o.id = id

SnapshotKept ==
    IsAction =>
        /\ (log # <<>> => Len(optionName) > 0 /\ (wf = "add" => values # NoValues))
        /\ \A i, j \in 1..Len(log) :
              log[i].call.kind = "list" /\ IsReq(log[j], Mutations) => i < j
        /\ (MutationReqs # <<>> => ReadFinished)
        /\ (ReadFinished =>
              /\ allProducts = ConcatNodes(Pages)
              /\ (wf = "add" =>
                    toAdd = SelectSeq(allProducts, LAMBDA p : LacksOption(p, optionName))))
        /\ \A i \in 1..Len(log) :
              IsReq(log[i], Mutations) =>
                 /\ SnapshotPosition(log[i].call.productId) >= 1
                 /\ (log[i].call.kind = "update" =>
                       LET p == allProducts[SnapshotPosition(log[i].call.productId)]
                           o == FirstMatch(p, optionName)
                       IN /\ log[i].call.option
                                = [id |-> o.id, name |-> o.name, position |-> o.position]
                          /\ \A n \in 1..Len(log[i].call.optionValuesToDelete) :
                                \E m \in 1..Len(o.optionValues) :
                                    o.optionValues[m].id
                                       = log[i].call.optionValuesToDelete[n])

\* a step of an action after its read leaves the snapshot as it is
SnapshotStep ==
    IsAction /\ ReadFinished /\ runs' = runs =>
        allProducts' = allProducts /\ toAdd' = toAdd

C16_ActionUsesOwnSnapshot == []SnapshotKept /\ [][SnapshotStep]_vars

\* the second invocation is a remove that issued a delete call for a product
\* its own read showed changed by the first invocation: an option of the
\* initial catalog is gone from the snapshot
C16_Witness ==
    /\ wf = "remove" /\ runs = 2 /\ ReadFinished
    /\ \E i \in 1..Len(log) :
          /\ IsReq(log[i], {"delete"})
          /\ LET p == allProducts[SnapshotPosition(log[i].call.productId)]
             IN /\ Len(p.options) = 1
                /\ p.options[1].name = <<"A", "B">>

(***************************************************************************)
(* C17: no compensation in remove.  When the value-trim of a product       *)
(* succeeded and the delete-option call that followed reported errors, the *)
(* errors are recorded, no further call is issued for that product, and    *)
(* the remote catalog holds the matched option with exactly one value, the *)
(* first value it had when the action read it.                             *)
(***************************************************************************)
\* positions in the history of the delete responses with errors that follow
\* a value-trim of the same product
FailedDeletesAfterTrim ==
    {i \in 1..Len(log) :
        /\ IsResp(log[i], {"delete"})
        /\ Len(log[i].resp.userErrors) # 0
        /\ ReqPositions({"update"}, log[i].call.productId) # {}}

\* the product with the given id in the remote catalog
RemoteProduct(id) == CHOOSE p \in {catalog[k] : k \in 1..Len(catalog)} : p.id = id

C17_TrimIsNotUndone ==
    wf = "remove" =>
        \A i \in FailedDeletesAfterTrim :
            LET id == log[i].call.productId
                before == FirstMatch(allProducts[SnapshotPosition(id)], optionName)
                now == RemoteProduct(id)
            IN /\ \A j \in 1..Len(log) :
                     j > i /\ log[j].t = "req" => log[j].call.productId # id
               /\ Cardinality(ReqPositions({"update"}, id)) = 1
               /\ Cardinality(ReqPositions({"delete"}, id)) = 1
               /\ errors = ConcatErrors(MutationResps)
               /\ Len(errors) >= Len(log[i].resp.userErrors)
               /\ \E k \in 1..Len(now.options) :
                     /\ now.options[k].id = before.id
                     /\ now.options[k].optionValues = <<before.optionValues[1]>>
               /\ Len(now.options) = Len(allProducts[SnapshotPosition(id)].options)

\* a remove returned: an option of three values was trimmed, its delete call
\* reported errors, and the loop had gone on with the product after it
C17_Witness ==
    /\ wf = "remove" /\ pc = "done"
    /\ \E i \in FailedDeletesAfterTrim :
          /\ i < Len(log)
          /\ Len(FirstMatch(allProducts[SnapshotPosition(log[i].call.productId)],
                            optionName).optionValues) = 3

(***************************************************************************)
(* C18: the cursor chain of a catalog read.  The first page request        *)
(* carries no cursor and asks for 250 products; every later page request   *)
(* asks for 250 products after the cursor of the last edge of the response *)
(* that came just before it; no two page requests of one read carry the    *)
(* same cursor.                                                            *)
(***************************************************************************)
C18_CursorChain ==
    /\ log # <<>> =>
          /\ IsReq(log[1], {"list"})
          /\ log[1].call.after = Null
    /\ \A i \in 1..Len(log) :
          IsReq(log[i], {"list"}) =>
             /\ log[i].call.first = 250
             /\ (i > 1 =>
                   /\ IsResp(log[i - 1], {"list"})
                   /\ log[i - 1].resp.pageInfo.hasNextPage
                   /\ Len(log[i - 1].resp.edges) >= 1
                   /\ log[i].call.after
                         = log[i - 1].resp.edges[Len(log[i - 1].resp.edges)].cursor
                   /\ log[i].call.after # Null)
    /\ \A i, j \in 1..Len(ListReqs) :
          ListReqs[i].call.after = ListReqs[j].call.after => i = j

\* a read of two pages: the second request carried the cursor of the product
\* that ended the first page
C18_Witness ==
    /\ Len(ListReqs) = 2
    /\ ListReqs[2].call.after = <<1>>
    /\ ReadFinished
    /\ Len(allProducts) = 2

(***************************************************************************)
(* C19: after a remove action that reported success for a search term, no  *)
(* product of the remote catalog has an option whose name contains the     *)
(* term ignoring case, also when a product had two or more such options    *)
(* before the run.                                                         *)
(***************************************************************************)
RemoveSucceeded ==
    /\ wf = "remove" /\ pc = "done" /\ ReadFinished
    /\ result.kind = "json" /\ result.success

C19_Original ==
    RemoveSucceeded =>
        \A i \in 1..Len(catalog) : ~HasMatch(catalog[i], optionName)

\* what the action does achieve: the first matching option of every product
\* of the snapshot is gone from the remote catalog
C19_FirstMatchRemoved ==
    RemoveSucceeded =>
        \A j \in 1..Len(allProducts) :
            HasMatch(allProducts[j], optionName) =>
                \A k \in 1..Len(RemoteProduct(allProducts[j].id).options) :
                    RemoteProduct(allProducts[j].id).options[k].id
                        # FirstMatch(allProducts[j], optionName).id

\* a remove reported success and a product that had two options containing
\* the term still has the second of them
C19_Witness ==
    /\ RemoveSucceeded
    /\ \E j \in 1..Len(allProducts) :
          /\ Cardinality(MatchPositions(allProducts[j], optionName)) = 2
          /\ HasMatch(RemoteProduct(allProducts[j].id), optionName)
          /\ Len(RemoteProduct(allProducts[j].id).options) = 1

(***************************************************************************)
(* C20: on the remove page the success handling (success toast, removal of *)
(* the option from the local products, reset of the search term) runs      *)
(* exactly once per remove submission that returned success: never more    *)
(* often than there were such submissions, and once for each of them when  *)
(* the effects have run; a change of the search term or of the number of   *)
(* filtered products without a new submission does not run it again.       *)
(***************************************************************************)
C20_Original ==
    /\ successRuns <= successes
    /\ (fetcherState # "error" /\ ~EffectPending => successRuns = successes)

\* the success handling ran a second time for one successful submission and
\* emptied a search field the user had filled in after the first run
C20_Witness ==
    /\ successes = 1
    /\ successRuns >= 2
    /\ edits = 2
    /\ searchTerm = <<>>
    /\ runs = 1

====
